---- MODULE Spec2Model ----
(***************************************************************************)
(* Verification model of the inVoice voice-driven invoice builder:         *)
(*   - the command matcher      (src/src/utils/voiceParser.ts)             *)
(*   - the command translator   (src/src/hooks/useVoiceCommands.ts)        *)
(*   - the invoice reducer      (src/src/hooks/useInvoiceState.ts)         *)
(*   - the speech hook and the transcript-processing effect                *)
(*     (src/unnamed/part_002, src/unnamed/part_018)                        *)
(*                                                                         *)
(* Representation.  A JavaScript string is a sequence of one-character     *)
(* strings, so that the regular expressions of the rule table are matched  *)
(* character by character.  Numbers are fixed point: unit prices, item     *)
(* totals and the subtotal are in 1/PriceScale units (cents), the tax rate *)
(* is in 1/RateScale (0.10 is 1000), and tax and total, which are products *)
(* with the rate, are in 1/(PriceScale*RateScale) units.  Dates are day    *)
(* numbers.                                                                *)
(***************************************************************************)
EXTENDS Integers, Sequences, FiniteSets, TLC

(***************************************************************************)
(* Bounds of the model.                                                    *)
(***************************************************************************)
MaxIds == 2        \* calls of crypto.randomUUID() for line items in a run
MaxSegs == 3       \* recognition results delivered in a run
MaxResults == 2    \* results one recognition event carries
MaxHeard == 3      \* utterances handed to the transcript effect in a run
MaxDay == 2        \* days the clock advances after the module is loaded

(***************************************************************************)
(* Fixed-point scales.                                                     *)
(***************************************************************************)
PriceScale == 100
RateScale == 10000

(***************************************************************************)
(* Characters and strings.                                                 *)
(***************************************************************************)
WhiteSpace == {" "}
Digits == {"0", "1", "2", "3", "4", "5", "6", "7", "8", "9"}
UpperChars == <<"A", "B", "C", "D", "E", "F", "G", "H", "I", "J", "K", "L", "M", "N", "O", "P", "Q", "R", "S", "T", "U", "V", "W", "X", "Y", "Z", "Ñ", "Ú", "Í", "Ó">>
LowerChars == <<"a", "b", "c", "d", "e", "f", "g", "h", "i", "j", "k", "l", "m", "n", "o", "p", "q", "r", "s", "t", "u", "v", "w", "x", "y", "z", "ñ", "ú", "í", "ó">>

IndexOfChar(c, str) ==
  IF \E i \in 1..Len(str) : str[i] = c
    THEN CHOOSE i \in 1..Len(str) : str[i] = c /\ \A j \in 1..(i - 1) : str[j] # c
    ELSE 0

toLowerCase(str) ==
  [i \in 1..Len(str) |->
     IF IndexOfChar(str[i], UpperChars) > 0
       THEN LowerChars[IndexOfChar(str[i], UpperChars)]
       ELSE str[i]]

RECURSIVE trimStart(_)
trimStart(str) ==
  IF Len(str) > 0 /\ Head(str) \in WhiteSpace THEN trimStart(Tail(str)) ELSE str

RECURSIVE trimEnd(_)
trimEnd(str) ==
  IF Len(str) > 0 /\ str[Len(str)] \in WhiteSpace
    THEN trimEnd(SubSeq(str, 1, Len(str) - 1))
    ELSE str

trim(str) == trimEnd(trimStart(str))

\* String.prototype.replace(from, to) with string arguments: the first
\* occurrence of from is replaced, the rest is left alone.
replace(str, from, to) ==
  LET occ == {i \in 1..(Len(str) - Len(from) + 1) :
                SubSeq(str, i, i + Len(from) - 1) = from}
  IN IF occ = {} THEN str
     ELSE LET i == CHOOSE k \in occ : \A m \in occ : k <= m
          IN SubSeq(str, 1, i - 1) \o to \o SubSeq(str, i + Len(from), Len(str))

DigitVal(c) == IndexOfChar(c, <<"0", "1", "2", "3", "4", "5", "6", "7", "8", "9">>) - 1

\* parseInt(str, 10) on a string of decimal digits.
RECURSIVE parseInt(_)
parseInt(str) ==
  IF Len(str) = 0 THEN 0
  ELSE 10 * parseInt(SubSeq(str, 1, Len(str) - 1)) + DigitVal(str[Len(str)])

\* parseFloat(str) on digits with an optional "." and fraction digits, as a
\* fixed-point number in hundredths (exact for up to two fraction digits,
\* which is all the model's utterances carry).
parseFloat(str) ==
  LET dot == IndexOfChar(".", str)
      whole == IF dot = 0 THEN str ELSE SubSeq(str, 1, dot - 1)
      frac == IF dot = 0 THEN <<>> ELSE SubSeq(str, dot + 1, Len(str))
      d1 == IF Len(frac) >= 1 THEN DigitVal(frac[1]) ELSE 0
      d2 == IF Len(frac) >= 2 THEN DigitVal(frac[2]) ELSE 0
  IN parseInt(whole) * 100 + 10 * d1 + d2

(***************************************************************************)
(* Regular expressions: the syntax tree of a pattern and a backtracking    *)
(* matcher with the priorities of the JavaScript engine (alternatives left *)
(* to right, greedy quantifiers longest first, lazy ones shortest first).  *)
(* Every quantified sub-pattern of the rule table is one character class,  *)
(* so a quantifier is matched by the length of the run it takes.           *)
(***************************************************************************)
Chr(set) == [k |-> "chr", set |-> set]
Dot == [k |-> "any"]
Cat(parts) == [k |-> "cat", parts |-> parts]
Lit(str) == [k |-> "lit", str |-> str]
Alt(alts) == [k |-> "alt", alts |-> alts]
Opt(r) == [k |-> "opt", r |-> r]
Star(r) == [k |-> "rep", r |-> r, min |-> 0, greedy |-> TRUE]
LazyStar(r) == [k |-> "rep", r |-> r, min |-> 0, greedy |-> FALSE]
Plus(r) == [k |-> "rep", r |-> r, min |-> 1, greedy |-> TRUE]
LazyPlus(r) == [k |-> "rep", r |-> r, min |-> 1, greedy |-> FALSE]
Grp(n, r) == [k |-> "grp", n |-> n, r |-> r]

NoCaps == [n \in 1..3 |-> <<0, 0>>]

\* The character class r has the character c.
Accepts(r, c) == IF r.k = "any" THEN c # "\n" ELSE c \in r.set

\* How many characters of str, from position i on, are in a row in class r.
Run(r, str, i) ==
  LET stops == {j \in i..Len(str) : ~Accepts(r, str[j])}
  IN IF stops = {} THEN Len(str) - i + 1
     ELSE (CHOOSE j \in stops : \A m \in stops : j <= m) - i

\* Matches the regexes of stack one after the other from position i of str.
\* The result is <<>> when there is no match, else <<[end, caps]>> for the
\* first match in backtracking order; caps[n] is the span <<from, to>> of
\* capture group n (to exclusive), <<0, 0>> when the group took no part.
RECURSIVE MatchK(_, _, _, _)
MatchK(stack, str, i, caps) ==
  IF Len(stack) = 0 THEN <<[end |-> i, caps |-> caps]>>
  ELSE
    LET re == Head(stack)
        rest == Tail(stack)
    IN CASE re.k = "chr" \/ re.k = "any" ->
              IF i <= Len(str) /\ Accepts(re, str[i])
                THEN MatchK(rest, str, i + 1, caps) ELSE <<>>
         [] re.k = "lit" ->
              IF i + Len(re.str) - 1 <= Len(str)
                   /\ SubSeq(str, i, i + Len(re.str) - 1) = re.str
                THEN MatchK(rest, str, i + Len(re.str), caps) ELSE <<>>
         [] re.k = "cat" -> MatchK(re.parts \o rest, str, i, caps)
         [] re.k = "alt" ->
              IF Len(re.alts) = 0 THEN <<>>
              ELSE LET first == MatchK(<<Head(re.alts)>> \o rest, str, i, caps)
                   IN IF Len(first) > 0 THEN first
                      ELSE MatchK(<<Alt(Tail(re.alts))>> \o rest, str, i, caps)
         [] re.k = "opt" ->
              LET taken == MatchK(<<re.r>> \o rest, str, i, caps)
              IN IF Len(taken) > 0 THEN taken ELSE MatchK(rest, str, i, caps)
         [] re.k = "rep" ->
              LET lengths == re.min..Run(re.r, str, i)
                  tries == {<<n, MatchK(rest, str, i + n, caps)>> : n \in lengths}
                  good == {t \in tries : Len(t[2]) > 0}
              IN IF good = {} THEN <<>>
                 ELSE (CHOOSE t \in good :
                         \A u \in good : IF re.greedy THEN t[1] >= u[1]
                                                       ELSE t[1] <= u[1])[2]
         [] re.k = "grp" ->
              MatchK(<<re.r, [k |-> "end", n |-> re.n, from |-> i]>> \o rest,
                     str, i, caps)
         [] re.k = "end" ->
              MatchK(rest, str, i, [caps EXCEPT ![re.n] = <<re.from, i>>])

\* str.match(pattern) for a pattern without the g flag: the leftmost match
\* that starts at position i or later.
MatchFrom(pattern, str, i) ==
  LET tries == {<<j, MatchK(<<pattern>>, str, j, NoCaps)>> :
                  j \in i..(Len(str) + 1)}
      good == {t \in tries : Len(t[2]) > 0}
  IN IF good = {} THEN <<>>
     ELSE (CHOOSE t \in good : \A u \in good : t[1] <= u[1])[2]

match(str, pattern) == MatchFrom(pattern, str, 1)

\* matches[n] of a successful match m on str; Defined(m, n) is the truthiness
\* test the extractors apply to an optional group.
Defined(m, n) == m[1].caps[n] # <<0, 0>> /\ m[1].caps[n][2] > m[1].caps[n][1]
Group(str, m, n) == SubSeq(str, m[1].caps[n][1], m[1].caps[n][2] - 1)

(***************************************************************************)
(* The rule table of voiceParser.ts, in table order.                       *)
(***************************************************************************)
WS == Plus(Chr(WhiteSpace))
WS0 == Star(Chr(WhiteSpace))
Digit == Chr(Digits)
AddVerb == Alt(<<Lit(<<"a", "d", "d">>), Lit(<<"a", "ñ", "a", "d", "i", "r">>), Lit(<<"a", "g", "r", "e", "g", "a", "r">>),
                 Cat(<<Lit(<<"a">>), Chr({"ñ", "n"}), Lit(<<"a", "d", "e">>)>>)>>)
Price == Cat(<<Plus(Digit), Opt(Cat(<<Chr({".", ","}), Digit, Opt(Digit)>>))>>)

\* Faulty variant of the specific add-item rule: the unit words are not part
\* of the pattern, so they are read as the start of the description.
AddItemPatternWithoutUnits ==
  Cat(<<AddVerb, WS,
        Opt(Cat(<<Grp(1, Plus(Digit)), WS>>)),
        Grp(2, LazyPlus(Dot)), WS, Alt(<<Lit(<<"a", "t">>), Lit(<<"a">>)>>), WS,
        Opt(Lit(<<"$">>)), Grp(3, Price)>>)

\* /(?:add|añadir|agregar|a[ñn]ade)\s+(?:(\d+)\s+)?(?:units?\s+of\s+|unidades?\s+de\s+)?(.+?)\s+(?:at|a)\s+\$?(\d+(?:[.,]\d{1,2})?)/i
AddItemPattern ==
  Cat(<<AddVerb, WS,
        Opt(Cat(<<Grp(1, Plus(Digit)), WS>>)),
        Opt(Alt(<<Cat(<<Lit(<<"u", "n", "i", "t">>), Opt(Lit(<<"s">>)), WS, Lit(<<"o", "f">>), WS>>),
                  Cat(<<Lit(<<"u", "n", "i", "d", "a", "d", "e">>), Opt(Lit(<<"s">>)), WS, Lit(<<"d", "e">>), WS>>)>>)),
        Grp(2, LazyPlus(Dot)), WS, Alt(<<Lit(<<"a", "t">>), Lit(<<"a">>)>>), WS,
        Opt(Lit(<<"$">>)), Grp(3, Price)>>)

\* /(?:add|añadir|agregar|a[ñn]ade)\s+(.+?)\s+(\d+(?:[.,]\d{1,2})?)/i
AddItemSimplePattern ==
  Cat(<<AddVerb, WS, Grp(1, LazyPlus(Dot)), WS, Grp(2, Price)>>)

\* /(?:customer|cliente)(?:\s+name|\s+nombre)?\s+(?:is|es)\s+(.+)/i
CustomerNamePattern ==
  Cat(<<Alt(<<Lit(<<"c", "u", "s", "t", "o", "m", "e", "r">>), Lit(<<"c", "l", "i", "e", "n", "t", "e">>)>>),
        Opt(Alt(<<Cat(<<WS, Lit(<<"n", "a", "m", "e">>)>>), Cat(<<WS, Lit(<<"n", "o", "m", "b", "r", "e">>)>>)>>)),
        WS, Alt(<<Lit(<<"i", "s">>), Lit(<<"e", "s">>)>>), WS, Grp(1, Plus(Dot))>>)

\* /(?:customer\s+)?(?:address|direcci[oó]n)\s+(?:is|es)\s+(.+)/i
CustomerAddressPattern ==
  Cat(<<Opt(Cat(<<Lit(<<"c", "u", "s", "t", "o", "m", "e", "r">>), WS>>)),
        Alt(<<Lit(<<"a", "d", "d", "r", "e", "s", "s">>),
              Cat(<<Lit(<<"d", "i", "r", "e", "c", "c", "i">>), Chr({"o", "ó"}), Lit(<<"n">>)>>)>>),
        WS, Alt(<<Lit(<<"i", "s">>), Lit(<<"e", "s">>)>>), WS, Grp(1, Plus(Dot))>>)

\* Faulty variant of the tax rule: [\s-]* before the number, so that a sign
\* is skipped like white space.
SetTaxPatternSkippingSign ==
  Cat(<<Opt(Cat(<<Lit(<<"s", "e", "t">>), WS>>)),
        Alt(<<Lit(<<"t", "a", "x">>), Lit(<<"i", "m", "p", "u", "e", "s", "t", "o">>), Lit(<<"i", "v", "a">>)>>),
        Opt(Alt(<<Cat(<<WS, Lit(<<"r", "a", "t", "e">>)>>), Cat(<<WS, Lit(<<"t", "a", "s", "a">>)>>)>>)),
        WS, Opt(Alt(<<Lit(<<"t", "o">>), Lit(<<"a">>)>>)), Star(Chr(WhiteSpace \cup {"-"})),
        Grp(1, Cat(<<Plus(Digit), Opt(Cat(<<Chr({".", ","}), Plus(Digit)>>))>>)),
        WS0,
        Opt(Alt(<<Lit(<<"%">>), Lit(<<"p", "e", "r", "c", "e", "n", "t">>),
                  Cat(<<Lit(<<"p", "o", "r">>), WS0, Lit(<<"c", "i", "e", "n", "t", "o">>)>>)>>))>>)

\* /(?:set\s+)?(?:tax|impuesto|iva)(?:\s+rate|\s+tasa)?\s+(?:to|a)?\s*(\d+(?:[.,]\d+)?)\s*(?:%|percent|por\s*ciento)?/i
SetTaxPattern ==
  Cat(<<Opt(Cat(<<Lit(<<"s", "e", "t">>), WS>>)),
        Alt(<<Lit(<<"t", "a", "x">>), Lit(<<"i", "m", "p", "u", "e", "s", "t", "o">>), Lit(<<"i", "v", "a">>)>>),
        Opt(Alt(<<Cat(<<WS, Lit(<<"r", "a", "t", "e">>)>>), Cat(<<WS, Lit(<<"t", "a", "s", "a">>)>>)>>)),
        WS, Opt(Alt(<<Lit(<<"t", "o">>), Lit(<<"a">>)>>)), WS0,
        Grp(1, Cat(<<Plus(Digit), Opt(Cat(<<Chr({".", ","}), Plus(Digit)>>))>>)),
        WS0,
        Opt(Alt(<<Lit(<<"%">>), Lit(<<"p", "e", "r", "c", "e", "n", "t">>),
                  Cat(<<Lit(<<"p", "o", "r">>), WS0, Lit(<<"c", "i", "e", "n", "t", "o">>)>>)>>))>>)

\* /(?:delete|remove|eliminar|borrar)\s+(?:item|art[ií]culo|elemento)?\s*(\d+|last|[uú]ltimo)/i
RemoveItemPattern ==
  Cat(<<Alt(<<Lit(<<"d", "e", "l", "e", "t", "e">>), Lit(<<"r", "e", "m", "o", "v", "e">>), Lit(<<"e", "l", "i", "m", "i", "n", "a", "r">>), Lit(<<"b", "o", "r", "r", "a", "r">>)>>),
        WS,
        Opt(Alt(<<Lit(<<"i", "t", "e", "m">>),
                  Cat(<<Lit(<<"a", "r", "t">>), Chr({"i", "í"}), Lit(<<"c", "u", "l", "o">>)>>),
                  Lit(<<"e", "l", "e", "m", "e", "n", "t", "o">>)>>)),
        WS0,
        Grp(1, Alt(<<Plus(Digit), Lit(<<"l", "a", "s", "t">>),
                     Cat(<<Chr({"u", "ú"}), Lit(<<"l", "t", "i", "m", "o">>)>>)>>))>>)

\* /(?:invoice|factura)\s+(?:number|n[uú]mero)\s+(?:is\s+|es\s+)?(.+)/i
InvoiceNumberPattern ==
  Cat(<<Alt(<<Lit(<<"i", "n", "v", "o", "i", "c", "e">>), Lit(<<"f", "a", "c", "t", "u", "r", "a">>)>>), WS,
        Alt(<<Lit(<<"n", "u", "m", "b", "e", "r">>), Cat(<<Lit(<<"n">>), Chr({"u", "ú"}), Lit(<<"m", "e", "r", "o">>)>>)>>),
        WS,
        Opt(Alt(<<Cat(<<Lit(<<"i", "s">>), WS>>), Cat(<<Lit(<<"e", "s">>), WS>>)>>)),
        Grp(1, Plus(Dot))>>)

\* /(?:add|set|añadir|agregar)\s+(?:note|nota)(?:s|tas)?\s+(?:to\s+)?(.+)/i
SetNotesPattern ==
  Cat(<<Alt(<<Lit(<<"a", "d", "d">>), Lit(<<"s", "e", "t">>), Lit(<<"a", "ñ", "a", "d", "i", "r">>), Lit(<<"a", "g", "r", "e", "g", "a", "r">>)>>), WS,
        Alt(<<Lit(<<"n", "o", "t", "e">>), Lit(<<"n", "o", "t", "a">>)>>),
        Opt(Alt(<<Lit(<<"s">>), Lit(<<"t", "a", "s">>)>>)), WS,
        Opt(Cat(<<Lit(<<"t", "o">>), WS>>)), Grp(1, Plus(Dot))>>)

\* /(?:show|mostrar)\s+(?:preview|vista\s+previa|previsualizaci[oó]n)/i
ShowPreviewPattern ==
  Cat(<<Alt(<<Lit(<<"s", "h", "o", "w">>), Lit(<<"m", "o", "s", "t", "r", "a", "r">>)>>), WS,
        Alt(<<Lit(<<"p", "r", "e", "v", "i", "e", "w">>),
              Cat(<<Lit(<<"v", "i", "s", "t", "a">>), WS, Lit(<<"p", "r", "e", "v", "i", "a">>)>>),
              Cat(<<Lit(<<"p", "r", "e", "v", "i", "s", "u", "a", "l", "i", "z", "a", "c", "i">>), Chr({"o", "ó"}), Lit(<<"n">>)>>)>>)>>)

\* /(?:generate|generar|crear)\s+pdf/i
GeneratePdfPattern ==
  Cat(<<Alt(<<Lit(<<"g", "e", "n", "e", "r", "a", "t", "e">>), Lit(<<"g", "e", "n", "e", "r", "a", "r">>), Lit(<<"c", "r", "e", "a", "r">>)>>), WS,
        Lit(<<"p", "d", "f">>)>>)

EmptyPayload == [f \in {} |-> 0]

\* extractPayload of rule n, applied to the match m on the normalized text.
\* parseFloat yields hundredths; a unit price is stored in 1/PriceScale and a
\* tax rate, which the extractor divides by 100, in 1/RateScale.
extractPayload(n, str, m) ==
  CASE n = 1 ->
         [quantity |-> IF Defined(m, 1) THEN parseInt(Group(str, m, 1)) ELSE 1,
          description |-> trim(Group(str, m, 2)),
          unitPrice |-> (parseFloat(replace(Group(str, m, 3), <<",">>, <<".">>)) * PriceScale)
                          \div 100]
    [] n = 2 ->
         [quantity |-> 1,
          description |-> trim(Group(str, m, 1)),
          unitPrice |-> (parseFloat(replace(Group(str, m, 2), <<",">>, <<".">>)) * PriceScale)
                          \div 100]
    [] n = 3 ->
         [customerName |-> trim(Group(str, m, 1)), customerAddress |-> <<>>]
    [] n = 4 ->
         [customerName |-> <<>>, customerAddress |-> trim(Group(str, m, 1))]
    [] n = 5 ->
         [taxRate |-> (parseFloat(replace(Group(str, m, 1), <<",">>, <<".">>)) * RateScale)
                         \div (100 * 100)]
    [] n = 6 ->
         [itemId |-> replace(replace(toLowerCase(Group(str, m, 1)),
                                     <<"ú", "l", "t", "i", "m", "o">>, <<"l", "a", "s", "t">>),
                             <<"u", "l", "t", "i", "m", "o">>, <<"l", "a", "s", "t">>)]
    [] n = 7 -> [invoiceNumber |-> trim(Group(str, m, 1))]
    [] n = 8 -> [notes |-> trim(Group(str, m, 1))]
    [] OTHER -> EmptyPayload

commandPatterns ==
  << [pattern |-> AddItemPattern, type |-> "add_item"],
     [pattern |-> AddItemSimplePattern, type |-> "add_item"],
     [pattern |-> CustomerNamePattern, type |-> "update_customer"],
     [pattern |-> CustomerAddressPattern, type |-> "update_customer"],
     [pattern |-> SetTaxPattern, type |-> "set_tax"],
     [pattern |-> RemoveItemPattern, type |-> "remove_item"],
     [pattern |-> InvoiceNumberPattern, type |-> "set_invoice_number"],
     [pattern |-> SetNotesPattern, type |-> "set_notes"],
     [pattern |-> ShowPreviewPattern, type |-> "show_preview"],
     [pattern |-> GeneratePdfPattern, type |-> "generate_pdf"] >>

\* Faulty variant of ParseFrom: the loop does not stop at the first rule that
\* matches, so the last matching rule of the table wins.
RECURSIVE ParseFromKeepingLast(_, _, _)
ParseFromKeepingLast(n, transcript, normalizedText) ==
  IF n > Len(commandPatterns)
    THEN [type |-> "unknown", payload |-> EmptyPayload,
          rawText |-> transcript, confidence |-> 0]
    ELSE LET matches == match(normalizedText, commandPatterns[n].pattern)
             later == ParseFromKeepingLast(n + 1, transcript, normalizedText)
         IN IF Len(matches) > 0 /\ later.type = "unknown"
              THEN [type |-> commandPatterns[n].type,
                    payload |-> extractPayload(n, normalizedText, matches),
                    rawText |-> transcript, confidence |-> 90]
              ELSE later

\* The loop of parseVoiceCommand from rule n on.  Confidence is in hundredths.
RECURSIVE ParseFrom(_, _, _)
ParseFrom(n, transcript, normalizedText) ==
  IF n > Len(commandPatterns)
    THEN [type |-> "unknown", payload |-> EmptyPayload,
          rawText |-> transcript, confidence |-> 0]
    ELSE LET matches == match(normalizedText, commandPatterns[n].pattern)
         IN IF Len(matches) > 0
              THEN [type |-> commandPatterns[n].type,
                    payload |-> extractPayload(n, normalizedText, matches),
                    rawText |-> transcript, confidence |-> 90]
              ELSE ParseFrom(n + 1, transcript, normalizedText)

parseVoiceCommand(transcript) ==
  ParseFrom(1, transcript, toLowerCase(trim(transcript)))

(***************************************************************************)
(* The translator of useVoiceCommands.ts.                                  *)
(***************************************************************************)
null == [type |-> "null"]

\* command.payload[key] || default, for a numeric and for a text field.
NumberOr(payload, key, default) ==
  IF key \in DOMAIN payload /\ payload[key] # 0 THEN payload[key] ELSE default

StringOr(payload, key) ==
  IF key \in DOMAIN payload THEN payload[key] ELSE <<>>

\* new Date(String(text)) for a date the payload carries as a day number in
\* decimal digits.
NewDate(text) == parseInt(text)

\* Faulty variant of processTranscript: a blank transcript is handed to the
\* parser as well.
processTranscriptOfBlank(transcript) == parseVoiceCommand(transcript)

processTranscript(transcript) ==
  IF Len(trim(transcript)) = 0 THEN null ELSE parseVoiceCommand(transcript)

\* Faulty variant of commandToAction: the text of a command no rule
\* recognized is kept as the notes of the invoice.
commandToActionKeepingUnknown(command) ==
  CASE command.type = "add_item" ->
         [type |-> "ADD_ITEM",
          payload |-> [description |-> StringOr(command.payload, "description"),
                       quantity |-> NumberOr(command.payload, "quantity", 1),
                       unitPrice |-> NumberOr(command.payload, "unitPrice", 0)]]
    [] command.type = "update_customer" ->
         [type |-> "SET_CUSTOMER",
          payload |-> [customerName |-> StringOr(command.payload, "customerName"),
                       customerAddress |->
                         StringOr(command.payload, "customerAddress")]]
    [] command.type = "set_tax" ->
         [type |-> "SET_TAX_RATE",
          payload |-> NumberOr(command.payload, "taxRate", 0)]
    [] command.type = "remove_item" ->
         [type |-> "REMOVE_ITEM", payload |-> StringOr(command.payload, "itemId")]
    [] command.type = "set_date" ->
         IF Len(StringOr(command.payload, "date")) > 0
           THEN [type |-> "SET_DATE", payload |-> NewDate(command.payload.date)]
           ELSE null
    [] command.type = "set_due_date" ->
         IF Len(StringOr(command.payload, "dueDate")) > 0
           THEN [type |-> "SET_DUE_DATE",
                 payload |-> NewDate(command.payload.dueDate)]
           ELSE null
    [] command.type = "set_invoice_number" ->
         [type |-> "SET_INVOICE_NUMBER",
          payload |-> StringOr(command.payload, "invoiceNumber")]
    [] command.type = "set_notes" ->
         [type |-> "SET_NOTES", payload |-> StringOr(command.payload, "notes")]
    [] command.type = "unknown" ->
         [type |-> "SET_NOTES", payload |-> command.rawText]
    [] OTHER -> null

commandToAction(command) ==
  CASE command.type = "add_item" ->
         [type |-> "ADD_ITEM",
          payload |-> [description |-> StringOr(command.payload, "description"),
                       quantity |-> NumberOr(command.payload, "quantity", 1),
                       unitPrice |-> NumberOr(command.payload, "unitPrice", 0)]]
    [] command.type = "update_customer" ->
         [type |-> "SET_CUSTOMER",
          payload |-> [customerName |-> StringOr(command.payload, "customerName"),
                       customerAddress |->
                         StringOr(command.payload, "customerAddress")]]
    [] command.type = "set_tax" ->
         [type |-> "SET_TAX_RATE",
          payload |-> NumberOr(command.payload, "taxRate", 0)]
    [] command.type = "remove_item" ->
         [type |-> "REMOVE_ITEM", payload |-> StringOr(command.payload, "itemId")]
    [] command.type = "set_date" ->
         IF Len(StringOr(command.payload, "date")) > 0
           THEN [type |-> "SET_DATE", payload |-> NewDate(command.payload.date)]
           ELSE null
    [] command.type = "set_due_date" ->
         IF Len(StringOr(command.payload, "dueDate")) > 0
           THEN [type |-> "SET_DUE_DATE",
                 payload |-> NewDate(command.payload.dueDate)]
           ELSE null
    [] command.type = "set_invoice_number" ->
         [type |-> "SET_INVOICE_NUMBER",
          payload |-> StringOr(command.payload, "invoiceNumber")]
    [] command.type = "set_notes" ->
         [type |-> "SET_NOTES", payload |-> StringOr(command.payload, "notes")]
    [] OTHER -> null

(***************************************************************************)
(* The invoice aggregate and its reducer (useInvoiceState.ts).             *)
(***************************************************************************)
LoadTime == 0      \* the day the module is loaded: new Date()
DueDays == 30      \* 30 * 24 * 60 * 60 * 1000 ms

initialInvoiceState ==
  [invoiceNumber |-> <<>>,
   date |-> LoadTime,
   dueDate |-> LoadTime + DueDays,
   customerName |-> <<>>,
   customerAddress |-> <<>>,
   items |-> <<>>,
   subtotal |-> 0,
   tax |-> 0,
   taxRate |-> 0,
   total |-> 0,
   notes |-> <<>>]

\* The n-th value of crypto.randomUUID(): a string that is neither a number
\* nor a word, and differs from every other value returned.
UUID(n) == <<"u", "u", "i", "d", "-">> \o <<<<"0", "1", "2", "3", "4", "5", "6", "7", "8", "9">>[n + 1]>>

\* items.reduce((sum, item) => sum + item.total, 0)
RECURSIVE SumTotals(_)
SumTotals(items) ==
  IF Len(items) = 0 THEN 0
  ELSE SumTotals(SubSeq(items, 1, Len(items) - 1)) + items[Len(items)].total

\* items.filter((item) => item.id !== id)
RECURSIVE FilterOut(_, _)
FilterOut(items, id) ==
  IF Len(items) = 0 THEN <<>>
  ELSE IF Head(items).id # id
         THEN <<Head(items)>> \o FilterOut(Tail(items), id)
         ELSE FilterOut(Tail(items), id)

\* The three derived fields, from the items and a rate.  tax and total are
\* in 1/(PriceScale*RateScale), so the subtotal is rescaled in the sum.
WithTotals(state, newItems) ==
  LET subtotal == SumTotals(newItems)
      tax == subtotal * state.taxRate
      total == subtotal * RateScale + tax
  IN [state EXCEPT !.items = newItems, !.subtotal = subtotal,
                   !.tax = tax, !.total = total]

\* Faulty variant of ADD_ITEM: the new item is put in front of the sequence.
ReduceAddItemInFront(state, payload, uuid) ==
  LET newItem == [id |-> uuid,
                  description |-> payload.description,
                  quantity |-> payload.quantity,
                  unitPrice |-> payload.unitPrice,
                  total |-> payload.quantity * payload.unitPrice]
  IN WithTotals(state, <<newItem>> \o state.items)

\* case 'ADD_ITEM'; uuid is what crypto.randomUUID() returns.
ReduceAddItem(state, payload, uuid) ==
  LET newItem == [id |-> uuid,
                  description |-> payload.description,
                  quantity |-> payload.quantity,
                  unitPrice |-> payload.unitPrice,
                  total |-> payload.quantity * payload.unitPrice]
  IN WithTotals(state, Append(state.items, newItem))

\* case 'REMOVE_ITEM'
ReduceRemoveItem(state, payload) ==
  WithTotals(state, FilterOut(state.items, payload))

\* Faulty variant of UpdatedItem: the total of the payload is kept.
UpdatedItemKeepingTotal(payload) == payload

\* The replacement of an item by UPDATE_ITEM: the payload, with its total
\* overwritten.
UpdatedItem(payload) ==
  [payload EXCEPT !.total = payload.quantity * payload.unitPrice]

\* Faulty variant of MapUpdate: the updated item is moved to the end of the
\* sequence.
MapUpdateMovingToEnd(items, payload) ==
  IF \E i \in 1..Len(items) : items[i].id = payload.id
    THEN Append(FilterOut(items, payload.id), UpdatedItem(payload))
    ELSE items

\* items.map((item) => item.id === payload.id ? {...} : item)
RECURSIVE MapUpdate(_, _)
MapUpdate(items, payload) ==
  IF Len(items) = 0 THEN <<>>
  ELSE <<IF Head(items).id = payload.id THEN UpdatedItem(payload)
                                        ELSE Head(items)>>
       \o MapUpdate(Tail(items), payload)

\* Faulty variant of UPDATE_ITEM: a payload whose id is the id of no item is
\* appended as a new item.
ReduceUpdateItemUpserting(state, payload) ==
  WithTotals(state,
    IF \E i \in 1..Len(state.items) : state.items[i].id = payload.id
      THEN MapUpdate(state.items, payload)
      ELSE Append(state.items, UpdatedItem(payload)))

\* case 'UPDATE_ITEM'
ReduceUpdateItem(state, payload) ==
  WithTotals(state, MapUpdate(state.items, payload))

\* case 'SET_CUSTOMER'
ReduceSetCustomer(state, payload) ==
  [state EXCEPT !.customerName = payload.customerName,
                !.customerAddress = payload.customerAddress]

\* Faulty variant of SET_TAX_RATE: the tax is computed with the old rate.
ReduceSetTaxRateWithOldRate(state, payload) ==
  LET tax == state.subtotal * state.taxRate
      total == state.subtotal * RateScale + tax
  IN [state EXCEPT !.taxRate = payload, !.tax = tax, !.total = total]

\* case 'SET_TAX_RATE'
ReduceSetTaxRate(state, payload) ==
  LET tax == state.subtotal * payload
      total == state.subtotal * RateScale + tax
  IN [state EXCEPT !.taxRate = payload, !.tax = tax, !.total = total]

\* Faulty variant of invoiceReducer: SET_DATE also moves the due date, to
\* DueDays after the new date.
invoiceReducerMovingDueDate(state, action, uuid) ==
  CASE action.type = "ADD_ITEM" -> ReduceAddItem(state, action.payload, uuid)
    [] action.type = "REMOVE_ITEM" -> ReduceRemoveItem(state, action.payload)
    [] action.type = "UPDATE_ITEM" -> ReduceUpdateItem(state, action.payload)
    [] action.type = "SET_CUSTOMER" -> ReduceSetCustomer(state, action.payload)
    [] action.type = "SET_TAX_RATE" -> ReduceSetTaxRate(state, action.payload)
    [] action.type = "SET_INVOICE_NUMBER" ->
         [state EXCEPT !.invoiceNumber = action.payload]
    [] action.type = "SET_DATE" ->
         [state EXCEPT !.date = action.payload,
                       !.dueDate = action.payload + DueDays]
    [] action.type = "SET_DUE_DATE" -> [state EXCEPT !.dueDate = action.payload]
    [] action.type = "SET_NOTES" -> [state EXCEPT !.notes = action.payload]
    [] action.type = "RESET_INVOICE" -> initialInvoiceState
    [] OTHER -> state

\* invoiceReducer(state, action); uuid is what crypto.randomUUID() returns
\* if the action is ADD_ITEM.
invoiceReducer(state, action, uuid) ==
  CASE action.type = "ADD_ITEM" -> ReduceAddItem(state, action.payload, uuid)
    [] action.type = "REMOVE_ITEM" -> ReduceRemoveItem(state, action.payload)
    [] action.type = "UPDATE_ITEM" -> ReduceUpdateItem(state, action.payload)
    [] action.type = "SET_CUSTOMER" -> ReduceSetCustomer(state, action.payload)
    [] action.type = "SET_TAX_RATE" -> ReduceSetTaxRate(state, action.payload)
    [] action.type = "SET_INVOICE_NUMBER" ->
         [state EXCEPT !.invoiceNumber = action.payload]
    [] action.type = "SET_DATE" -> [state EXCEPT !.date = action.payload]
    [] action.type = "SET_DUE_DATE" -> [state EXCEPT !.dueDate = action.payload]
    [] action.type = "SET_NOTES" -> [state EXCEPT !.notes = action.payload]
    [] action.type = "RESET_INVOICE" -> initialInvoiceState
    [] OTHER -> state

(***************************************************************************)
(* State.                                                                  *)
(***************************************************************************)
VARIABLES
  invoiceData,        \* useReducer(invoiceReducer, initialInvoiceState)
  nextUuid,           \* how many UUIDs crypto.randomUUID() has handed to items
  lastAction,         \* history: type of the last dispatched action, and
                      \* whether its target id was the id of an item
  twin,               \* what the reducer returns when it is run a second
                      \* time on the aggregate and the action of the last
                      \* dispatch
  now,                \* the clock: the day Date.now() falls on
  lastCommand,        \* the command last handed to commandToAction
  lastRequest,        \* what commandToAction returned for it
  isSupported,        \* useState: the browser has a SpeechRecognition
  status,             \* useState<SpeechRecognitionStatus>
  error,              \* useState<SpeechRecognitionError | null>, its type
  recognizer,         \* the browser's recognizer: inactive, starting, active,
                      \* stopping (stop() was called) or ending (after an
                      \* error)
  transcripts,        \* useState<TranscriptSegment[]>
  interimTranscript,  \* useState<string>
  effectDue,          \* transcripts was set and the render that runs the
                      \* transcript effect has not happened yet
  delivered,          \* history: every recognition result delivered
  processed,          \* history: every segment the effect handed to
                      \* processTranscript
  startedAt           \* history: the state the recognizer was in when its
                      \* start() was last called, or "never"; "off" in the
                      \* specifications that keep no record of the calls

engineVars == <<invoiceData, nextUuid, lastAction, twin>>
speechVars == <<isSupported, status, error, recognizer>>
transcriptVars == <<transcripts, interimTranscript, effectDue>>
historyVars == <<delivered, processed>>
callVars == <<lastCommand, lastRequest>>
vars == <<engineVars, speechVars, transcriptVars, historyVars, callVars, now, startedAt>>

Init ==
  /\ invoiceData = initialInvoiceState
  /\ nextUuid = 1
  /\ lastAction = [type |-> "none", hit |-> FALSE]
  /\ twin = initialInvoiceState
  /\ now = LoadTime
  /\ startedAt = "off"
  /\ lastCommand = null
  /\ lastRequest = null
  /\ isSupported = TRUE
  /\ status = IF isSupported THEN "idle" ELSE "unsupported"
  /\ error = "null"
  /\ recognizer = "inactive"
  /\ transcripts = <<>>
  /\ interimTranscript = <<>>
  /\ effectDue = FALSE
  /\ delivered = <<>>
  /\ processed = <<>>

(***************************************************************************)
(* dispatch(action): the reducer runs on the current aggregate.            *)
(***************************************************************************)
HasItem(state, id) == \E i \in 1..Len(state.items) : state.items[i].id = id

\* The id an action aims at, if it is REMOVE_ITEM or UPDATE_ITEM.
Hits(state, action) ==
  CASE action.type = "REMOVE_ITEM" -> HasItem(state, action.payload)
    [] action.type = "UPDATE_ITEM" -> HasItem(state, action.payload.id)
    [] OTHER -> FALSE

\* Faulty variant of dispatch: the id generator hands out the value it
\* handed out before.
dispatchWithUsedUuid(action) ==
  /\ invoiceData' = invoiceReducer(invoiceData, action, UUID(1))
  /\ nextUuid' = IF action.type = "ADD_ITEM" THEN nextUuid + 1 ELSE nextUuid
  /\ lastAction' = [type |-> action.type, hit |-> Hits(invoiceData, action)]
  /\ twin' = invoiceReducer(invoiceData, action, UUID(nextUuid + 1))

dispatch(action) ==
  /\ invoiceData' = invoiceReducer(invoiceData, action, UUID(nextUuid))
  /\ nextUuid' = IF action.type = "ADD_ITEM" THEN nextUuid + 1 ELSE nextUuid
  /\ lastAction' = [type |-> action.type, hit |-> Hits(invoiceData, action)]
  /\ twin' = invoiceReducer(invoiceData, action, UUID(nextUuid + 1))

(***************************************************************************)
(* Inputs of the reducer-level specification.                              *)
(***************************************************************************)
Descriptions == {<<"w", "i", "d", "g", "e", "t">>, <<"p", "a", "i", "n", "t">>}
Quantities == {-1, 5}
UnitPrices == {2000}
TaxRates == {-500, 0, 1000}
StaleTotals == {7}
Names == {<<"a", "n", "a">>}
Addresses == {<<>>, <<"c", "a", "l", "l", "e", " ", "3">>}
InvoiceNumbers == {<<"i", "n", "v", "-", "1">>}
Notes == {<<"n", "e", "t", " ", "3", "0">>}
Dates == {7}
LAST == <<"l", "a", "s", "t">>
ItemIds == {UUID(n) : n \in 1..MaxIds} \cup {LAST, <<"2">>}

AddItem(description, quantity, unitPrice) ==
  /\ nextUuid <= MaxIds
  /\ dispatch([type |-> "ADD_ITEM",
               payload |-> [description |-> description, quantity |-> quantity,
                            unitPrice |-> unitPrice]])
  /\ UNCHANGED <<speechVars, transcriptVars, historyVars, callVars, now, startedAt>>

RemoveItem(itemId) ==
  /\ dispatch([type |-> "REMOVE_ITEM", payload |-> itemId])
  /\ UNCHANGED <<speechVars, transcriptVars, historyVars, callVars, now, startedAt>>

UpdateItem(item) ==
  /\ dispatch([type |-> "UPDATE_ITEM", payload |-> item])
  /\ UNCHANGED <<speechVars, transcriptVars, historyVars, callVars, now, startedAt>>

SetCustomer(customerName, customerAddress) ==
  /\ dispatch([type |-> "SET_CUSTOMER",
               payload |-> [customerName |-> customerName,
                            customerAddress |-> customerAddress]])
  /\ UNCHANGED <<speechVars, transcriptVars, historyVars, callVars, now, startedAt>>

SetTaxRate(rate) ==
  /\ dispatch([type |-> "SET_TAX_RATE", payload |-> rate])
  /\ UNCHANGED <<speechVars, transcriptVars, historyVars, callVars, now, startedAt>>

SetInvoiceNumber(invoiceNumber) ==
  /\ dispatch([type |-> "SET_INVOICE_NUMBER", payload |-> invoiceNumber])
  /\ UNCHANGED <<speechVars, transcriptVars, historyVars, callVars, now, startedAt>>

SetDate(date) ==
  /\ dispatch([type |-> "SET_DATE", payload |-> date])
  /\ UNCHANGED <<speechVars, transcriptVars, historyVars, callVars, now, startedAt>>

SetDueDate(date) ==
  /\ dispatch([type |-> "SET_DUE_DATE", payload |-> date])
  /\ UNCHANGED <<speechVars, transcriptVars, historyVars, callVars, now, startedAt>>

SetNotes(notes) ==
  /\ dispatch([type |-> "SET_NOTES", payload |-> notes])
  /\ UNCHANGED <<speechVars, transcriptVars, historyVars, callVars, now, startedAt>>

ResetInvoice ==
  /\ dispatch([type |-> "RESET_INVOICE"])
  /\ UNCHANGED <<speechVars, transcriptVars, historyVars, callVars, now, startedAt>>

ItemPayloads ==
  [id : ItemIds, description : Descriptions, quantity : Quantities,
   unitPrice : UnitPrices, total : StaleTotals]

Next ==
  \/ \E d \in Descriptions, q \in Quantities, p \in UnitPrices : AddItem(d, q, p)
  \/ \E id \in ItemIds : RemoveItem(id)
  \/ \E item \in ItemPayloads : UpdateItem(item)
  \/ \E n \in Names, a \in Addresses : SetCustomer(n, a)
  \/ \E r \in TaxRates : SetTaxRate(r)
  \/ \E n \in InvoiceNumbers : SetInvoiceNumber(n)
  \/ \E d \in Dates : SetDate(d)
  \/ \E d \in Dates : SetDueDate(d)
  \/ \E n \in Notes : SetNotes(n)
  \/ ResetInvoice

Spec == Init /\ [][Next]_vars

(***************************************************************************)
(* The reducer while time passes: the clock advances between dispatches.   *)
(***************************************************************************)
Tick ==
  /\ now < LoadTime + MaxDay
  /\ now' = now + 1
  /\ UNCHANGED <<engineVars, speechVars, transcriptVars, historyVars, callVars,
               startedAt>>

NextClock ==
  \/ Tick
  \/ \E d \in Descriptions, q \in Quantities, p \in UnitPrices : AddItem(d, q, p)
  \/ \E n \in Names, a \in Addresses : SetCustomer(n, a)
  \/ \E r \in TaxRates : SetTaxRate(r)
  \/ \E n \in InvoiceNumbers : SetInvoiceNumber(n)
  \/ \E d \in Dates : SetDueDate(d)
  \/ \E n \in Notes : SetNotes(n)
  \/ ResetInvoice

SpecClock == Init /\ [][NextClock]_vars

(***************************************************************************)
(* The speech hook (useSpeechRecognition) and the effect of AppContent     *)
(* that turns the last transcript into a dispatch.  A handler runs only    *)
(* when the render its predecessor asked for has been committed and the    *)
(* transcript effect of that render has run.                               *)
(***************************************************************************)
FinalTexts ==
  {<<"A", "d", "d", " ", "5", " ", "W", "i", "d", "g", "e", "t", " ", "a", "t", " ", "2", "0">>, <<"s", "e", "t", " ", "t", "a", "x", " ", "t", "o", " ", "1", "0">>, <<"s", "e", "t", " ", "t", "a", "x", " ", "t", "o", " ", "-", "5">>,
   <<"r", "e", "m", "o", "v", "e", " ", "l", "a", "s", "t", " ", "i", "t", "e", "m">>, <<"B", "o", "r", "r", "a", "r", " ", "ú", "l", "t", "i", "m", "o">>}
InterimTexts == {<<"s", "e", "t", " ", "t", "a", "x", " ", "t", "o", " ", "1", "0">>, <<"a", "d", "d", " ", "5", " ", "w", "i", "d">>}
ErrorTypes == {"no-speech", "not-allowed"}

Results ==
  {[transcript |-> t, isFinal |-> TRUE] : t \in FinalTexts}
    \cup {[transcript |-> t, isFinal |-> FALSE] : t \in InterimTexts}

\* processTranscript on the texts the recognizer delivers, computed once.
Texts == FinalTexts \cup InterimTexts
ProcessedOnce == [t \in Texts |-> processTranscript(t)]

\* event.results from event.resultIndex on.
Events == UNION {[1..n -> Results] : n \in 1..MaxResults}

\* Faulty variant of StartListening: the status is not tested before
\* recognition.start().
StartListeningWhileListening ==
  /\ ~effectDue
  /\ IF ~isSupported
       THEN /\ error' = "not-supported"
            /\ UNCHANGED <<isSupported, status, recognizer, startedAt>>
       ELSE /\ recognizer' = IF recognizer = "inactive" THEN "starting"
                                                        ELSE recognizer
            /\ startedAt' = IF startedAt = "off" THEN startedAt ELSE recognizer
            /\ UNCHANGED <<isSupported, status, error>>
  /\ UNCHANGED <<engineVars, transcriptVars, historyVars, callVars, now>>

StartListening ==
  /\ ~effectDue
  /\ IF ~isSupported
       THEN /\ error' = "not-supported"
            /\ UNCHANGED <<isSupported, status, recognizer, startedAt>>
       ELSE IF status = "listening"
         THEN UNCHANGED <<speechVars, startedAt>>
         \* recognition.start(); it throws, and the hook catches, when the
         \* recognizer has been started and has not ended
         ELSE /\ recognizer' = IF recognizer = "inactive" THEN "starting"
                                                          ELSE recognizer
              /\ startedAt' = IF startedAt = "off" THEN startedAt ELSE recognizer
              /\ UNCHANGED <<isSupported, status, error>>
  /\ UNCHANGED <<engineVars, transcriptVars, historyVars, callVars, now>>

StopListening ==
  /\ ~effectDue
  /\ recognizer' = IF status = "listening" /\ recognizer = "active"
                     THEN "stopping" ELSE recognizer
  /\ UNCHANGED <<isSupported, status, error>>
  /\ UNCHANGED <<engineVars, transcriptVars, historyVars, callVars, now, startedAt>>

\* recognition.onstart
OnStart ==
  /\ ~effectDue
  /\ recognizer = "starting"
  /\ recognizer' = "active"
  /\ status' = "listening"
  /\ error' = "null"
  /\ UNCHANGED <<isSupported, engineVars, transcriptVars, historyVars,
               callVars, now, startedAt>>

\* recognition.onend
OnEnd ==
  /\ ~effectDue
  /\ recognizer \in {"starting", "active", "stopping", "ending"}
  /\ recognizer' = "inactive"
  /\ status' = "idle"
  /\ UNCHANGED <<isSupported, error, engineVars, transcriptVars, historyVars,
               callVars, now, startedAt>>

\* recognition.onerror; the recognizer delivers no result after an error and
\* ends the session
OnError(errorType) ==
  /\ ~effectDue
  /\ recognizer \in {"starting", "active"}
  /\ recognizer' = "ending"
  /\ error' = errorType
  /\ status' = "error"
  /\ UNCHANGED <<isSupported, engineVars, transcriptVars, historyVars,
               callVars, now, startedAt>>

\* Faulty variant of NewSegments: result.isFinal is not tested, every result
\* becomes a segment.
RECURSIVE NewSegmentsOfAllResults(_, _, _)
NewSegmentsOfAllResults(event, k, base) ==
  IF k > Len(event) THEN <<>>
  ELSE <<[text |-> event[k].transcript, isFinal |-> TRUE, seq |-> base + k]>>
       \o NewSegmentsOfAllResults(event, k + 1, base)

\* The segments the loop of onresult appends for results k.. of the event;
\* seq is the position of the result among all results delivered (history).
\* The id, timestamp and confidence of a segment are never read.
RECURSIVE NewSegments(_, _, _)
NewSegments(event, k, base) ==
  IF k > Len(event) THEN <<>>
  ELSE (IF event[k].isFinal
          THEN <<[text |-> event[k].transcript, isFinal |-> TRUE,
                  seq |-> base + k]>>
          ELSE <<>>)
       \o NewSegments(event, k + 1, base)

\* The value of the local variable interim after the loop.
RECURSIVE InterimOf(_, _)
InterimOf(event, k) ==
  IF k > Len(event) THEN <<>>
  ELSE (IF event[k].isFinal THEN <<>> ELSE event[k].transcript)
       \o InterimOf(event, k + 1)

\* recognition.onresult; a recognizer that was told to stop may still deliver
\* the results of the audio it has captured
OnResult(event) ==
  /\ ~effectDue
  /\ recognizer \in {"active", "stopping"}
  /\ Len(delivered) + Len(event) <= MaxSegs
  /\ LET segments == NewSegments(event, 1, Len(delivered))
         interim == InterimOf(event, 1)
     IN /\ transcripts' = transcripts \o segments
        /\ interimTranscript' =
             IF Len(interim) > 0 THEN interim
             ELSE IF Len(segments) > 0 THEN <<>> ELSE interimTranscript
        /\ effectDue' = (Len(segments) > 0)
  /\ delivered' = delivered \o
       [k \in 1..Len(event) |->
          [seq |-> Len(delivered) + k, text |-> event[k].transcript,
           isFinal |-> event[k].isFinal]]
  /\ UNCHANGED <<processed, engineVars, speechVars, callVars, now, startedAt>>

\* Faulty variant of resetTranscripts: clearing the transcripts clears the
\* invoice as well.
resetTranscriptsAndInvoice ==
  /\ ~effectDue
  /\ transcripts' = <<>>
  /\ interimTranscript' = <<>>
  /\ error' = "null"
  /\ effectDue' = TRUE
  /\ dispatch([type |-> "RESET_INVOICE"])
  /\ UNCHANGED <<isSupported, status, recognizer, historyVars,
               callVars, now, startedAt>>

resetTranscripts ==
  /\ ~effectDue
  /\ transcripts' = <<>>
  /\ interimTranscript' = <<>>
  /\ error' = "null"
  /\ effectDue' = TRUE
  /\ UNCHANGED <<isSupported, status, recognizer, engineVars, historyVars,
               callVars, now, startedAt>>

\* The body of the transcript effect of AppContent, run by the render that
\* follows a change of transcripts.  A generate_pdf command starts the PDF
\* export and returns before the translator; the export reads the aggregate
\* and is not part of the state.
RunEffect ==
  /\ effectDue
  /\ effectDue' = FALSE
  /\ IF Len(transcripts) = 0 \/ ~transcripts[Len(transcripts)].isFinal
       THEN UNCHANGED <<engineVars, processed, callVars>>
       ELSE LET lastTranscript == transcripts[Len(transcripts)]
                command == ProcessedOnce[lastTranscript.text]
                action == IF command.type \in {"null", "generate_pdf"}
                            THEN null ELSE commandToAction(command)
            IN /\ processed' = Append(processed,
                                      [seq |-> lastTranscript.seq,
                                       text |-> lastTranscript.text])
               /\ IF command.type \in {"null", "generate_pdf"}
                    THEN UNCHANGED callVars
                    ELSE lastCommand' = command /\ lastRequest' = action
               /\ IF action.type = "null" THEN UNCHANGED engineVars
                                          ELSE dispatch(action)
  /\ UNCHANGED <<transcripts, interimTranscript, delivered, speechVars, now, startedAt>>

NextPipe ==
  \/ StartListening
  \/ StopListening
  \/ OnStart
  \/ OnEnd
  \/ \E e \in ErrorTypes : OnError(e)
  \/ \E event \in Events : OnResult(event)
  \/ resetTranscripts
  \/ RunEffect

SpecPipe == Init /\ [][NextPipe]_vars

\* The hook in a browser with or without a SpeechRecognition: the mount
\* effect has set isSupported, and status to 'unsupported' without one.
InitListen ==
  /\ invoiceData = initialInvoiceState
  /\ nextUuid = 1
  /\ lastAction = [type |-> "none", hit |-> FALSE]
  /\ twin = initialInvoiceState
  /\ now = LoadTime
  /\ startedAt = "never"
  /\ lastCommand = null
  /\ lastRequest = null
  /\ isSupported \in BOOLEAN
  /\ status = IF isSupported THEN "idle" ELSE "unsupported"
  /\ error = "null"
  /\ recognizer = "inactive"
  /\ transcripts = <<>>
  /\ interimTranscript = <<>>
  /\ effectDue = FALSE
  /\ delivered = <<>>
  /\ processed = <<>>

\* The error types onerror tells apart.
AllErrorTypes ==
  {"not-allowed", "no-speech", "aborted", "audio-capture", "network",
   "service-not-allowed", "bad-grammar", "language-not-supported"}

\* Events of one result, of a text that comes as interim and as final.
ListenEvents ==
  {<<r>> : r \in {x \in Results : x.transcript \in FinalTexts \cap InterimTexts}}

\* The calls and the events of the hook around a session.
NextListen ==
  \/ StartListening
  \/ StopListening
  \/ OnStart
  \/ OnEnd
  \/ \E e \in AllErrorTypes : OnError(e)
  \/ \E event \in ListenEvents : OnResult(event)
  \/ resetTranscripts
  \/ RunEffect

SpecListen == InitListen /\ [][NextListen]_vars

(***************************************************************************)
(* The transcript effect of App.tsx run on one final transcript: the text  *)
(* goes through processTranscript and commandToAction, and the action, if  *)
(* there is one, is dispatched.                                            *)
(***************************************************************************)
AddUnitsEach == <<"a", "d", "d", " ", "5", " ", "u", "n", "i", "t", "s", " ", "o", "f", " ", "p", "a", "i", "n", "t", " ", "a", "t", " ", "2", "0", " ", "e", "a", "c", "h">>
SpokenCounts == {<<"5">>, <<"1", "2">>}
SpokenNames == {<<"p", "a", "i", "n", "t">>, <<"t", "y", "p", "e", " ", "a", " ", "4", " ", "p", "a", "p", "e", "r">>}
SpokenPrices == {<<"2", "0">>, <<"7", ",", "5">>}

\* "add N units of X at P"
AddUnitsOf(n, x, p) ==
  <<"a", "d", "d", " ">> \o n \o <<" ", "u", "n", "i", "t", "s", " ", "o", "f", " ">> \o x \o <<" ", "a", "t", " ">> \o p

UnitsUtterances ==
  {AddUnitsOf(n, x, p) : n \in SpokenCounts, x \in SpokenNames,
                         p \in SpokenPrices}
    \cup {AddUnitsEach}

\* An English phrasing and its Spanish equivalent: the pairs the
\* specification names, then pairs of voiceCommandExamples.
LocalePairs ==
  << [en |-> <<"a", "d", "d", " ", "3", " ", "c", "h", "a", "i", "r", "s", " ", "a", "t", " ", "4", "0">>, es |-> <<"a", "ñ", "a", "d", "i", "r", " ", "3", " ", "s", "i", "l", "l", "a", "s", " ", "a", " ", "4", "0">>],
     [en |-> <<"r", "e", "m", "o", "v", "e", " ", "l", "a", "s", "t", " ", "i", "t", "e", "m">>, es |-> <<"b", "o", "r", "r", "a", "r", " ", "ú", "l", "t", "i", "m", "o">>],
     [en |-> <<"s", "e", "t", " ", "t", "a", "x", " ", "t", "o", " ", "1", "0">>, es |-> <<"i", "m", "p", "u", "e", "s", "t", "o", " ", "1", "0">>],
     [en |-> <<"D", "e", "l", "e", "t", "e", " ", "i", "t", "e", "m", " ", "2">>, es |-> <<"E", "l", "i", "m", "i", "n", "a", "r", " ", "a", "r", "t", "í", "c", "u", "l", "o", " ", "2">>],
     [en |-> <<"S", "h", "o", "w", " ", "p", "r", "e", "v", "i", "e", "w">>, es |-> <<"M", "o", "s", "t", "r", "a", "r", " ", "v", "i", "s", "t", "a", " ", "p", "r", "e", "v", "i", "a">>],
     [en |-> <<"C", "u", "s", "t", "o", "m", "e", "r", " ", "a", "d", "d", "r", "e", "s", "s", " ", "i", "s", " ", "7", "8", "9", " ", "C", "o", "m", "m", "e", "r", "c", "e", " ", "B", "o", "u", "l", "e", "v", "a", "r", "d">>,
      es |-> <<"D", "i", "r", "e", "c", "c", "i", "ó", "n", " ", "d", "e", "l", " ", "c", "l", "i", "e", "n", "t", "e", " ", "e", "s", " ", "B", "l", "v", "d", ".", " ", "C", "o", "m", "e", "r", "c", "i", "o", " ", "7", "8", "9">>] >>

LocaleUtterances ==
  UNION {{LocalePairs[i].en, LocalePairs[i].es} : i \in 1..Len(LocalePairs)}

HelloWorld == <<"h", "e", "l", "l", "o", " ", "w", "o", "r", "l", "d">>
OtherUtterances ==
  {HelloWorld, <<"I", "n", "v", "o", "i", "c", "e", " ", "n", "u", "m", "b", "e", "r", " ", "i", "s", " ", "I", "N", "V", "-", "7">>, <<"s", "e", "t", " ", "n", "o", "t", "e", "s", " ", "t", "o", " ", "n", "e", "t", " ", "3", "0">>,
   <<" ", "G", "e", "n", "e", "r", "a", "t", "e", " ", "P", "D", "F", " ">>}

Utterances == UnitsUtterances \cup LocaleUtterances \cup OtherUtterances

(***************************************************************************)
(* The pipeline on the documented phrasings of notes, customer fields and  *)
(* ordinal removals, and on blank segments.                                *)
(***************************************************************************)
\* "add note T" / "añadir nota T": what is said and the text T.
NotePairs ==
  {[say |-> <<"a", "d", "d", " ", "n", "o", "t", "e", " ", "c", "o", "m", "m", "e", "r", "c", "i", "a", "l", " ", "p", "a", "i", "n", "t", "i", "n", "g", " ", "w", "o", "r", "k", " ", "c", "o", "m", "p", "l", "e", "t", "e", "d">>,
    text |-> <<"c", "o", "m", "m", "e", "r", "c", "i", "a", "l", " ", "p", "a", "i", "n", "t", "i", "n", "g", " ", "w", "o", "r", "k", " ", "c", "o", "m", "p", "l", "e", "t", "e", "d">>],
   [say |-> <<"a", "d", "d", " ", "n", "o", "t", "e", " ", "c", "a", "l", "l", " ", "b", "a", "c", "k", " ", "a", "t", " ", "5">>, text |-> <<"c", "a", "l", "l", " ", "b", "a", "c", "k", " ", "a", "t", " ", "5">>],
   [say |-> <<"a", "d", "d", " ", "n", "o", "t", "e", " ", "n", "e", "t", " ", "3", "0">>, text |-> <<"n", "e", "t", " ", "3", "0">>],
   [say |-> <<"a", "ñ", "a", "d", "i", "r", " ", "n", "o", "t", "a", " ", "p", "a", "g", "o", " ", "a", " ", "3", "0">>, text |-> <<"p", "a", "g", "o", " ", "a", " ", "3", "0">>]}

\* The customer-address examples of voiceCommandExamples and their X.
AddressPairs ==
  {[say |-> <<"A", "d", "d", "r", "e", "s", "s", " ", "i", "s", " ", "1", "2", "3", " ", "B", "u", "s", "i", "n", "e", "s", "s", " ", "P", "l", "a", "z", "a", " ", "S", "u", "i", "t", "e", " ", "4", "0", "0">>,
    text |-> <<"1", "2", "3", " ", "b", "u", "s", "i", "n", "e", "s", "s", " ", "p", "l", "a", "z", "a", " ", "s", "u", "i", "t", "e", " ", "4", "0", "0">>],
   [say |-> <<"C", "u", "s", "t", "o", "m", "e", "r", " ", "a", "d", "d", "r", "e", "s", "s", " ", "i", "s", " ", "7", "8", "9", " ", "C", "o", "m", "m", "e", "r", "c", "e", " ", "B", "o", "u", "l", "e", "v", "a", "r", "d">>,
    text |-> <<"7", "8", "9", " ", "c", "o", "m", "m", "e", "r", "c", "e", " ", "b", "o", "u", "l", "e", "v", "a", "r", "d">>],
   [say |-> <<"D", "i", "r", "e", "c", "c", "i", "ó", "n", " ", "e", "s", " ", "A", "v", ".", " ", "P", "r", "i", "n", "c", "i", "p", "a", "l", " ", "1", "2", "3", " ", "O", "f", "i", "c", "i", "n", "a", " ", "4", "0", "0">>,
    text |-> <<"a", "v", ".", " ", "p", "r", "i", "n", "c", "i", "p", "a", "l", " ", "1", "2", "3", " ", "o", "f", "i", "c", "i", "n", "a", " ", "4", "0", "0">>],
   [say |-> <<"D", "i", "r", "e", "c", "c", "i", "ó", "n", " ", "d", "e", "l", " ", "c", "l", "i", "e", "n", "t", "e", " ", "e", "s", " ", "B", "l", "v", "d", ".", " ", "C", "o", "m", "e", "r", "c", "i", "o", " ", "7", "8", "9">>,
    text |-> <<"b", "l", "v", "d", ".", " ", "c", "o", "m", "e", "r", "c", "i", "o", " ", "7", "8", "9">>]}

CustomerIsAna == <<"c", "u", "s", "t", "o", "m", "e", "r", " ", "i", "s", " ", "a", "n", "a">>
AddressIsCalle3 == <<"a", "d", "d", "r", "e", "s", "s", " ", "i", "s", " ", "c", "a", "l", "l", "e", " ", "3">>

\* "delete item N" and its N; the two additions give it items to aim at.
Add3Chairs == <<"a", "d", "d", " ", "3", " ", "c", "h", "a", "i", "r", "s", " ", "a", "t", " ", "4", "0">>
Add2Desks == <<"a", "d", "d", " ", "2", " ", "d", "e", "s", "k", "s", " ", "a", "t", " ", "9", "0">>
DeletePairs ==
  {[say |-> <<"d", "e", "l", "e", "t", "e", " ", "i", "t", "e", "m", " ", "1">>, n |-> 1], [say |-> <<"d", "e", "l", "e", "t", "e", " ", "i", "t", "e", "m", " ", "2">>, n |-> 2],
   [say |-> <<"d", "e", "l", "e", "t", "e", " ", "i", "t", "e", "m", " ", "5">>, n |-> 5]}

\* Segments with nothing in them.
BlankPhrases == {<<>>, <<" ", " ", " ">>}

Phrases ==
  {pair.say : pair \in NotePairs \cup AddressPairs \cup DeletePairs}
    \cup {CustomerIsAna, AddressIsCalle3, Add3Chairs, Add2Desks}
    \cup BlankPhrases

\* processTranscript on the utterances, computed once.
UtteredOnce == [t \in Utterances \cup Phrases |-> processTranscript(t)]

Utter(text) ==
  /\ Len(processed) < MaxHeard
  /\ delivered' = Append(delivered, [seq |-> Len(delivered) + 1, text |-> text,
                                     isFinal |-> TRUE])
  /\ processed' = Append(processed, [seq |-> Len(delivered) + 1, text |-> text])
  /\ LET command == UtteredOnce[text]
     IN IF command.type = "null"
          THEN UNCHANGED <<callVars, engineVars>>
          ELSE LET action == commandToAction(command)
               IN /\ lastCommand' = command
                  /\ lastRequest' = action
                  /\ IF action.type = "null" THEN UNCHANGED engineVars
                                             ELSE dispatch(action)
  /\ UNCHANGED <<speechVars, transcriptVars, now, startedAt>>

NextCall == \E text \in Utterances : Utter(text)

SpecCall == Init /\ [][NextCall]_vars

NextPhrase == \E text \in Phrases : Utter(text)

SpecPhrase == Init /\ [][NextPhrase]_vars

(***************************************************************************)
(* commandToAction called on a command of any kind of VoiceCommandType,    *)
(* with and without the fields its payload may carry.                      *)
(***************************************************************************)
VoiceCommandTypes ==
  {"add_item", "update_customer", "set_tax", "remove_item", "update_item",
   "set_date", "set_due_date", "set_invoice_number", "set_notes",
   "show_preview", "generate_pdf", "unknown"}

\* The payload without one of its fields.
Without(payload, key) == [k \in DOMAIN payload \ {key} |-> payload[k]]

\* Every payload of the set, and every payload with one field missing.
WithMissing(payloads) ==
  payloads \cup UNION {{Without(payload, key) : key \in DOMAIN payload} :
                         payload \in payloads}

PayloadsOf(type) ==
  CASE type = "add_item" ->
         WithMissing([description : Descriptions, quantity : {0, 5, -1},
                      unitPrice : {0, 2000}])
    [] type = "update_customer" ->
         WithMissing([customerName : Names \cup {<<>>},
                      customerAddress : Addresses])
    [] type = "set_tax" -> WithMissing([taxRate : {0, 1000}])
    [] type = "remove_item" -> WithMissing([itemId : {LAST, <<"2">>, UUID(1)}])
    [] type = "update_item" ->
         [id : {UUID(1)}, description : Descriptions, quantity : {5},
          unitPrice : UnitPrices]
    [] type = "set_date" -> WithMissing([date : {<<"7">>}])
    [] type = "set_due_date" -> WithMissing([dueDate : {<<"7">>}])
    [] type = "set_invoice_number" ->
         WithMissing([invoiceNumber : InvoiceNumbers])
    [] type = "set_notes" -> WithMissing([notes : Notes])
    [] OTHER -> {EmptyPayload}

Confidences == {0, 90}

Translate(type, payload, confidence) ==
  /\ lastCommand' = [type |-> type, payload |-> payload,
                     rawText |-> <<"s", "p", "o", "k", "e", "n">>, confidence |-> confidence]
  /\ lastRequest' = commandToAction(lastCommand')
  /\ UNCHANGED <<engineVars, speechVars, transcriptVars, historyVars, now, startedAt>>

NextTranslate ==
  \E type \in VoiceCommandTypes :
    \E payload \in PayloadsOf(type), confidence \in Confidences :
      Translate(type, payload, confidence)

SpecTranslate == Init /\ [][NextTranslate]_vars

(***************************************************************************)
(* Properties.                                                             *)
(***************************************************************************)
Items == invoiceData.items

\* The sum of the items' totals, from the right.
RECURSIVE SumOfTotals(_)
SumOfTotals(items) ==
  IF Len(items) = 0 THEN 0 ELSE Head(items).total + SumOfTotals(Tail(items))

\* The texts of a history, in order.
TextsOf(history) == [i \in 1..Len(history) |-> history[i].text]
SeqsOf(history) == [i \in 1..Len(history) |-> history[i].seq]

RECURSIVE FinalsOf(_)
FinalsOf(history) ==
  IF Len(history) = 0 THEN <<>>
  ELSE (IF Head(history).isFinal THEN <<Head(history)>> ELSE <<>>)
       \o FinalsOf(Tail(history))

AddWidget == <<"A", "d", "d", " ", "5", " ", "W", "i", "d", "g", "e", "t", " ", "a", "t", " ", "2", "0">>
SetTax10 == <<"s", "e", "t", " ", "t", "a", "x", " ", "t", "o", " ", "1", "0">>
SetTaxMinus5 == <<"s", "e", "t", " ", "t", "a", "x", " ", "t", "o", " ", "-", "5">>
RemoveLast == <<"r", "e", "m", "o", "v", "e", " ", "l", "a", "s", "t", " ", "i", "t", "e", "m">>
BorrarUltimo == <<"B", "o", "r", "r", "a", "r", " ", "ú", "l", "t", "i", "m", "o">>

\* This step is the transcript effect handing the text to processTranscript.
Processes(text) ==
  /\ processed' # processed
  /\ processed'[Len(processed')].text = text

\* C1: after every mutation the subtotal is the sum of the items' totals, the
\* tax is the subtotal times the tax rate and the total is subtotal plus tax.
C1_TotalsConsistent ==
  /\ invoiceData.subtotal = SumOfTotals(Items)
  /\ invoiceData.tax = invoiceData.subtotal * invoiceData.taxRate
  /\ invoiceData.total = invoiceData.subtotal * RateScale + invoiceData.tax

C1_Witness ==
  /\ Len(Items) >= 2
  /\ invoiceData.taxRate # 0
  /\ invoiceData.subtotal # 0
  /\ lastAction.type = "SET_TAX_RATE"

\* C2: the stored total of every line item is its quantity times its unit
\* price, whatever total an update payload carried.
C2_ItemTotalsDerived ==
  \A i \in 1..Len(Items) :
    Items[i].total = Items[i].quantity * Items[i].unitPrice

C2_Witness ==
  /\ lastAction = [type |-> "UPDATE_ITEM", hit |-> TRUE]
  /\ Len(Items) >= 1
  /\ \A t \in StaleTotals, q \in Quantities, p \in UnitPrices : t # q * p

\* C3: negative values are rejected, so the tax rate, the quantities and the
\* unit prices of every reachable aggregate are non-negative.
C3_NoNegativeValues ==
  /\ invoiceData.taxRate >= 0
  /\ \A i \in 1..Len(Items) : Items[i].quantity >= 0 /\ Items[i].unitPrice >= 0

\* C4: the finalized utterance "set tax to -5" leaves the tax rate, the tax
\* and the total of the aggregate as they were.
C4_NegativeTaxUtteranceIgnored ==
  [][Processes(SetTaxMinus5) =>
       /\ invoiceData'.taxRate = invoiceData.taxRate
       /\ invoiceData'.tax = invoiceData.tax
       /\ invoiceData'.total = invoiceData.total]_vars

C4_Witness ==
  /\ Len(processed) >= 2
  /\ processed[Len(processed)].text = SetTaxMinus5
  /\ ~effectDue
  /\ invoiceData.taxRate = 1000
  /\ Len(Items) >= 1

\* C5: a remove-item with the "last" sentinel, as the utterances "remove last
\* item" and "borrar ultimo" produce it, drops exactly the last item of a
\* non-empty sequence, keeps the others in order and recomputes the totals.
C5_RemoveLastDropsLastItem ==
  [][(Processes(RemoveLast) \/ Processes(BorrarUltimo)) /\ Len(Items) >= 1 =>
       /\ invoiceData'.items = SubSeq(Items, 1, Len(Items) - 1)
       /\ invoiceData'.subtotal = SumOfTotals(invoiceData'.items)]_vars

\* C6: from the empty aggregate, "add item A" then "remove last item" leaves
\* no item; "remove last item" first is a no-op and "add item A" after it
\* leaves exactly the item A.
C6_OrderSensitivity ==
  /\ (TextsOf(processed) = <<AddWidget, RemoveLast>> /\ ~effectDue
        => Len(Items) = 0)
  /\ (TextsOf(processed) = <<RemoveLast>> /\ ~effectDue
        => invoiceData = initialInvoiceState)
  /\ (TextsOf(processed) = <<RemoveLast, AddWidget>> /\ ~effectDue
        => Len(Items) = 1 /\ Items[1].description = <<"w", "i", "d", "g", "e", "t">>)

\* C7: from the empty aggregate, add-item(Widget, 5, 20) gives one item of
\* total 100, subtotal 100, tax 0, total 100; set-tax(10 percent) then gives
\* tax 10 and total 110; remove-item("last") then gives no items and subtotal,
\* tax and total 0.
C7_Scenario ==
  /\ (TextsOf(processed) = <<AddWidget>> /\ ~effectDue
        => /\ Len(Items) = 1
           /\ Items[1].quantity = 5
           /\ Items[1].unitPrice = 20 * PriceScale
           /\ Items[1].total = 100 * PriceScale
           /\ invoiceData.subtotal = 100 * PriceScale
           /\ invoiceData.tax = 0
           /\ invoiceData.total = 100 * PriceScale * RateScale)
  /\ (TextsOf(processed) = <<AddWidget, SetTax10>> /\ ~effectDue
        => /\ invoiceData.tax = 10 * PriceScale * RateScale
           /\ invoiceData.total = 110 * PriceScale * RateScale)
  /\ (TextsOf(processed) = <<AddWidget, SetTax10, RemoveLast>> /\ ~effectDue
        => /\ Len(Items) = 0
           /\ invoiceData.subtotal = 0
           /\ invoiceData.tax = 0
           /\ invoiceData.total = 0)

\* C8: a remove-item or update-item whose id is the id of no item leaves the
\* whole aggregate as it was.
C8_MissingTargetNoOp ==
  [][lastAction'.type \in {"REMOVE_ITEM", "UPDATE_ITEM"} /\ ~lastAction'.hit
       => invoiceData' = invoiceData]_vars

C8_Witness ==
  /\ lastAction = [type |-> "UPDATE_ITEM", hit |-> FALSE]
  /\ Len(Items) >= 2
  /\ invoiceData.taxRate # 0

\* C9: once the renders are done, the segments the effect took up are the
\* final segments delivered, each once and in delivery order.
C9_EveryFinalSegmentProcessedOnce ==
  ~effectDue => SeqsOf(processed) = SeqsOf(FinalsOf(delivered))

\* C10: every text handed to processTranscript is the text of a delivered
\* final result, and an event of interim results only changes neither the
\* aggregate nor what has been processed, and asks for no effect.
C10_ProcessedAreFinal ==
  \A i \in 1..Len(processed) :
    \E j \in 1..Len(delivered) :
      /\ delivered[j].seq = processed[i].seq
      /\ delivered[j].text = processed[i].text
      /\ delivered[j].isFinal

C10_InterimNeverReachesMatcher ==
  /\ []C10_ProcessedAreFinal
  /\ [][(/\ delivered' # delivered
         /\ \A j \in (Len(delivered) + 1)..Len(delivered') :
              ~delivered'[j].isFinal)
          => /\ invoiceData' = invoiceData
             /\ processed' = processed
             /\ ~effectDue']_vars

C10_Witness ==
  /\ \E j \in 1..Len(delivered) :
       ~delivered[j].isFinal /\ delivered[j].text = SetTax10
  /\ \A j \in 1..Len(delivered) :
       delivered[j].isFinal => delivered[j].text # SetTax10
  /\ Len(processed) >= 1
  /\ ~effectDue
  /\ invoiceData.taxRate = 0

\* The rules of the table whose pattern matches the normalized utterance.
MatchingRules(text) ==
  {n \in 1..Len(commandPatterns) :
     Len(match(toLowerCase(trim(text)), commandPatterns[n].pattern)) > 0}

\* The command of the first rule, in table order, that matches the
\* normalized utterance; the unknown command when no rule matches.
FirstRuleCommand(text) ==
  LET normalizedText == toLowerCase(trim(text))
      rules == MatchingRules(text)
  IN IF rules = {}
       THEN [type |-> "unknown", payload |-> EmptyPayload, rawText |-> text,
             confidence |-> 0]
       ELSE LET n == CHOOSE k \in rules : \A m \in rules : k <= m
            IN [type |-> commandPatterns[n].type,
                payload |-> extractPayload(n, normalizedText,
                              match(normalizedText, commandPatterns[n].pattern)),
                rawText |-> text, confidence |-> 90]

FirstRuleOnce == [t \in Utterances |-> FirstRuleCommand(t)]

\* C11: the command made from an utterance has the kind and the payload of
\* the first rule of the table that matches the trimmed, lower-cased
\* utterance, and confidence 0.9; when no rule matches it is unknown with an
\* empty payload and confidence 0.  The raw utterance is carried unchanged.
C11_FirstMatchingRuleWins ==
  [][\A text \in Utterances :
       Processes(text) /\ Len(trim(text)) > 0
         => lastCommand' = FirstRuleOnce[text]]_vars

\* The utterance two rules match has been processed: the command is that of
\* the specific add-item rule.
C11_Witness ==
  /\ Len(processed) > 0
  /\ processed[Len(processed)].text = AddUnitsEach
  /\ Cardinality(MatchingRules(AddUnitsEach)) > 1
  /\ lastCommand.rawText = AddUnitsEach
  /\ lastCommand.type = "add_item"
  /\ lastCommand.confidence = 90

\* A description in which the lazy (.+?) of the add-item rule stops early:
\* some character, then " at " or " a " and a digit, as before a price.
PriceInside ==
  Cat(<<Dot, WS, Alt(<<Lit(<<"a", "t">>), Lit(<<"a">>)>>), WS, Opt(Lit(<<"$">>)), Digit>>)
HasPriceInside(x) == Len(match(x, PriceInside)) > 0

\* The price a spoken number stands for, in 1/PriceScale.
SpokenPrice(p) == parseFloat(replace(p, <<",">>, <<".">>))

\* The last utterance processed is text, and lastCommand is its command.
LastProcessed(text) ==
  /\ Len(processed) > 0
  /\ processed[Len(processed)].text = text
  /\ lastCommand.rawText = text

Shape(action) ==
  CASE action.type = "ADD_ITEM" ->
         [type |-> action.type,
          numbers |-> <<action.payload.quantity, action.payload.unitPrice>>,
          itemId |-> <<>>, filled |-> <<>>]
    [] action.type = "SET_TAX_RATE" ->
         [type |-> action.type, numbers |-> <<action.payload>>,
          itemId |-> <<>>, filled |-> <<>>]
    [] action.type = "REMOVE_ITEM" ->
         [type |-> action.type, numbers |-> <<>>, itemId |-> action.payload,
          filled |-> <<>>]
    [] action.type = "SET_CUSTOMER" ->
         [type |-> action.type, numbers |-> <<>>, itemId |-> <<>>,
          filled |-> <<Len(action.payload.customerName) > 0,
                       Len(action.payload.customerAddress) > 0>>]
    [] OTHER ->
         [type |-> action.type, numbers |-> <<>>, itemId |-> <<>>,
          filled |-> <<>>]

\* The mutation request an utterance is translated to.
RequestOf(text) ==
  IF UtteredOnce[text].type = "null" THEN null
  ELSE commandToAction(UtteredOnce[text])

\* C13: an English utterance and its Spanish equivalent translate to
\* mutation requests of the same kind, with the same numeric fields and the
\* same item reference, that differ only in free text.
C13_LocaleEquivalence ==
  \A i \in 1..Len(LocalePairs) :
    LastProcessed(LocalePairs[i].en) \/ LastProcessed(LocalePairs[i].es)
      => /\ Shape(lastRequest) = Shape(RequestOf(LocalePairs[i].en))
         /\ Shape(lastRequest) = Shape(RequestOf(LocalePairs[i].es))

\* The utterances no rule of the table matches.
Unparseable == {t \in Utterances : Len(trim(t)) > 0 /\ MatchingRules(t) = {}}

\* C14: every time an utterance no rule matches goes through the pipeline,
\* the command is unknown with confidence 0 and the aggregate is left
\* exactly as it was.
C14_UnknownChangesNothing ==
  [][\A text \in Unparseable :
       Processes(text)
         => /\ lastCommand'.type = "unknown"
            /\ lastCommand'.confidence = 0
            /\ lastRequest' = null
            /\ invoiceData' = invoiceData]_vars

\* An item was added, then the same unparseable utterance went through the
\* pipeline twice: the aggregate still is what the add left.
C14_Witness ==
  /\ Len(processed) = 3
  /\ processed[2].text = HelloWorld
  /\ processed[3].text = HelloWorld
  /\ HelloWorld \in Unparseable
  /\ lastCommand.type = "unknown"
  /\ lastCommand.confidence = 0
  /\ Len(invoiceData.items) = 1
  /\ lastAction.type = "ADD_ITEM"

\* The mutation each invoice-affecting kind of command corresponds to.
MutationOf(type) ==
  CASE type = "add_item" -> "ADD_ITEM"
    [] type = "remove_item" -> "REMOVE_ITEM"
    [] type = "update_item" -> "UPDATE_ITEM"
    [] type = "update_customer" -> "SET_CUSTOMER"
    [] type = "set_tax" -> "SET_TAX_RATE"
    [] type = "set_invoice_number" -> "SET_INVOICE_NUMBER"
    [] type = "set_date" -> "SET_DATE"
    [] type = "set_due_date" -> "SET_DUE_DATE"
    [] type = "set_notes" -> "SET_NOTES"
    [] OTHER -> "null"

\* C15: the translator returns no mutation exactly for show_preview,
\* generate_pdf and unknown; for a command of any other kind it returns the
\* mutation of that kind.
C15_TranslatorIsTotal ==
  lastCommand # null
    => /\ lastRequest = null
            <=> lastCommand.type \in {"show_preview", "generate_pdf", "unknown"}
       /\ lastRequest.type = MutationOf(lastCommand.type)

\* C16: the reducer run twice on the same aggregate and the same mutation
\* returns two equal aggregates, ids of the items included.
C16_Deterministic == twin = invoiceData

\* This step is a dispatch of an action of the type.
Dispatched(type) == lastAction'.type = type /\ now' = now /\ processed' = processed

\* C17: a reset at time now leaves no items, zero subtotal, tax, total and
\* tax rate, empty invoice number, customer name, customer address and
\* notes, and a due date 30 days after now.
C17_ResetIsFresh ==
  [][Dispatched("RESET_INVOICE")
       => /\ invoiceData'.items = <<>>
          /\ invoiceData'.subtotal = 0
          /\ invoiceData'.tax = 0
          /\ invoiceData'.total = 0
          /\ invoiceData'.taxRate = 0
          /\ invoiceData'.invoiceNumber = <<>>
          /\ invoiceData'.customerName = <<>>
          /\ invoiceData'.customerAddress = <<>>
          /\ invoiceData'.notes = <<>>
          /\ invoiceData'.dueDate = now + DueDays]_vars

\* The fields of the aggregate that are neither the items nor a sum.
PlainFields ==
  {"customerName", "customerAddress", "invoiceNumber", "date", "dueDate",
   "notes", "taxRate"}

\* The positions at which the item sequence of the step differs.
ChangedPositions ==
  {i \in 1..Len(invoiceData.items) :
     invoiceData'.items[i] # invoiceData.items[i]}

\* C18: an update-item whose id is the id of an item keeps the length of
\* the sequence and the id at every position, changes the item at no more
\* than one position, and leaves the customer, the dates, the invoice
\* number, the notes and the tax rate as they were.
C18_UpdateInPlace ==
  [][Dispatched("UPDATE_ITEM") /\ lastAction'.hit
       => /\ Len(invoiceData'.items) = Len(invoiceData.items)
          /\ \A i \in 1..Len(invoiceData.items) :
               invoiceData'.items[i].id = invoiceData.items[i].id
          /\ Cardinality(ChangedPositions) <= 1
          /\ \A f \in PlainFields : invoiceData'[f] = invoiceData[f]]_vars

\* An item in front of the last one was updated: the first item has the
\* total an update gives and the stored sums are those of the sequence.
C18_Witness ==
  /\ lastAction = [type |-> "UPDATE_ITEM", hit |-> TRUE]
  /\ Len(Items) >= 2
  /\ Items[1].id = UUID(1)
  /\ Items[1].quantity # Items[2].quantity
  /\ Items[1].description # Items[2].description
  /\ invoiceData.taxRate # 0

\* C19: a set-tax-rate with rate r gives taxRate = r, tax = subtotal * r and
\* total = subtotal + tax for the subtotal stored before, and leaves the
\* items, the subtotal and every other field as they were.
C19_SetTaxRateFrame ==
  [][Dispatched("SET_TAX_RATE")
       => \E r \in TaxRates :
            invoiceData' =
              [invoiceData EXCEPT
                 !.taxRate = r,
                 !.tax = invoiceData.subtotal * r,
                 !.total = invoiceData.subtotal * RateScale
                           + invoiceData.subtotal * r]]_vars

C19_Witness ==
  /\ lastAction.type = "SET_TAX_RATE"
  /\ invoiceData.taxRate = 1000
  /\ Len(Items) >= 2
  /\ invoiceData.subtotal > 0
  /\ invoiceData.tax = invoiceData.subtotal * 1000
  /\ invoiceData.notes # <<>>

\* The field a direct replacement writes, and the values it is given.
OwnField(type) ==
  CASE type = "SET_INVOICE_NUMBER" -> "invoiceNumber"
    [] type = "SET_DATE" -> "date"
    [] type = "SET_DUE_DATE" -> "dueDate"
    [] type = "SET_NOTES" -> "notes"

GivenValues(type) ==
  CASE type = "SET_INVOICE_NUMBER" -> InvoiceNumbers
    [] type = "SET_DATE" -> Dates
    [] type = "SET_DUE_DATE" -> Dates
    [] type = "SET_NOTES" -> Notes

\* C20: set invoice number, set date, set due date and set notes give their
\* own field the value of the request and leave every other field of the
\* aggregate, the items and the sums included, as it was.
C20_DirectReplacement ==
  [][\A type \in {"SET_INVOICE_NUMBER", "SET_DATE", "SET_DUE_DATE", "SET_NOTES"} :
       Dispatched(type)
         => /\ invoiceData'[OwnField(type)] \in GivenValues(type)
            /\ \A f \in DOMAIN invoiceData \ {OwnField(type)} :
                 invoiceData'[f] = invoiceData[f]]_vars

C20_Witness ==
  /\ lastAction.type = "SET_DATE"
  /\ invoiceData.date \in Dates
  /\ invoiceData.dueDate = LoadTime + DueDays
  /\ invoiceData.invoiceNumber # <<>>
  /\ invoiceData.notes # <<>>
  /\ Len(Items) >= 1
  /\ invoiceData.taxRate # 0

\* C21: an add-item makes the sequence one longer; the items it had stay at
\* their positions as they were; the new item is the last one, has a
\* description, a quantity and a unit price of the request, and an id that
\* no item had.
C21_AddItemAppends ==
  [][Dispatched("ADD_ITEM")
       => LET old == invoiceData.items
              new == invoiceData'.items
          IN /\ Len(new) = Len(old) + 1
             /\ SubSeq(new, 1, Len(old)) = old
             /\ new[Len(new)].description \in Descriptions
             /\ new[Len(new)].quantity \in Quantities
             /\ new[Len(new)].unitPrice \in UnitPrices
             /\ \A i \in 1..Len(old) : old[i].id # new[Len(new)].id]_vars

C21_Witness ==
  /\ lastAction.type = "ADD_ITEM"
  /\ Len(Items) >= 2
  /\ Items[1].description # Items[2].description
  /\ Items[1].id # Items[2].id

\* The value of a payload's field, or the default if the payload has no such
\* field.
PresentOr(payload, key, default) ==
  IF key \in DOMAIN payload THEN payload[key] ELSE default

\* C22: the mutation of an add-item command has the quantity and the unit
\* price of the payload whenever the payload has them, 0 included, and has
\* quantity 1 and unit price 0 only for a field the payload lacks.
C22_PresentNumbersCopied ==
  lastCommand # null /\ lastCommand.type = "add_item"
    => /\ lastRequest.payload.quantity =
            PresentOr(lastCommand.payload, "quantity", 1)
       /\ lastRequest.payload.unitPrice =
            PresentOr(lastCommand.payload, "unitPrice", 0)

\* C23: "add note T" and "añadir nota T" are set-notes commands with notes T,
\* whatever T ends in or has inside, and never add-item commands.
C23_AddNoteIsSetNotes ==
  \A pair \in NotePairs :
    LastProcessed(pair.say)
      => /\ lastCommand.type = "set_notes"
         /\ lastCommand.payload = [notes |-> pair.text]

\* The address examples the customer-name rule matches.
TakenByNameRule == {pair \in AddressPairs : 3 \in MatchingRules(pair.say)}

\* C24: each documented customer-address example is an update-customer
\* command with customerAddress X, and the customer-name rule matches none
\* of them.
C24_AddressExamples ==
  \A pair \in AddressPairs :
    LastProcessed(pair.say)
      => /\ lastCommand.type = "update_customer"
         /\ lastCommand.payload.customerAddress = pair.text
         /\ pair \notin TakenByNameRule

\* The sequence without its n-th item.
RemoveAt(items, n) ==
  SubSeq(items, 1, n - 1) \o SubSeq(items, n + 1, Len(items))

\* C25: "delete item N" with 1 <= N <= number of items removes the N-th item
\* and keeps the others in order; with any other N the aggregate is left as
\* it was.
C25_OrdinalRemoval ==
  [][\A pair \in DeletePairs :
       Processes(pair.say)
         => IF pair.n \in 1..Len(invoiceData.items)
              THEN invoiceData'.items = RemoveAt(invoiceData.items, pair.n)
              ELSE invoiceData' = invoiceData]_vars

\* C26: a segment that is empty or only white space produces no command and
\* no mutation request, dispatches nothing and leaves the aggregate as it
\* was.
C26_BlankIgnored ==
  [][\A text \in BlankPhrases :
       Processes(text)
         => /\ lastCommand' = lastCommand
            /\ lastRequest' = lastRequest
            /\ lastAction' = lastAction
            /\ invoiceData' = invoiceData]_vars

\* After an addition a blank segment went through the effect: the command
\* and the action on record are still those of the addition.
C26_Witness ==
  /\ Len(processed) = 2
  /\ processed[1].text = Add3Chairs
  /\ processed[2].text \in BlankPhrases
  /\ Len(trim(processed[2].text)) = 0
  /\ Len(processed[2].text) > 0
  /\ lastCommand.rawText = Add3Chairs
  /\ lastAction.type = "ADD_ITEM"
  /\ Len(Items) = 1

\* The last two utterances processed are these two, in this order.
LastTwoProcessed(first, second) ==
  /\ Len(processed) >= 2
  /\ processed[Len(processed) - 1].text = first
  /\ processed[Len(processed)].text = second

\* C28: "customer is X" leaves the address that was set and "address is Y"
\* leaves the name that was set, so after the two utterances, in either
\* order, the aggregate has name X and address Y.
C28_CustomerFieldsKept ==
  LastTwoProcessed(CustomerIsAna, AddressIsCalle3)
    \/ LastTwoProcessed(AddressIsCalle3, CustomerIsAna)
    => /\ invoiceData.customerName = <<"a", "n", "a">>
       /\ invoiceData.customerAddress = <<"c", "a", "l", "l", "e", " ", "3">>

\* C29: no two items of the aggregate have the same id, whatever additions,
\* updates, removals and resets led to it.
C29_IdsDistinct ==
  \A i, j \in 1..Len(Items) : i # j => Items[i].id # Items[j].id

\* Two items, the first updated after the second was added.
C29_Witness ==
  /\ lastAction = [type |-> "UPDATE_ITEM", hit |-> TRUE]
  /\ Len(Items) = 2
  /\ Items[1].id = UUID(1)
  /\ Items[2].id = UUID(2)

\* This step is a stop() the recognizer accepts, its end event or its error
\* event.
SessionCloses ==
  /\ recognizer' # recognizer
  /\ recognizer' \in {"stopping", "inactive", "ending"}

\* This step clears the transcript list, or is the run of the transcript
\* effect on the cleared list.
TranscriptsCleared ==
  \/ ~effectDue /\ effectDue' /\ transcripts' = <<>>
  \/ effectDue /\ ~effectDue' /\ transcripts = <<>>

\* C27: stopping, an end or an error event of the recognizer, and clearing
\* the transcripts leave the aggregate as it was and dispatch nothing: no
\* mutation applied before is undone or applied again.
C27_StoppingKeepsAggregate ==
  [][SessionCloses \/ TranscriptsCleared
       => /\ invoiceData' = invoiceData
          /\ lastAction' = lastAction
          /\ nextUuid' = nextUuid]_vars

\* An item was added by voice, the session has ended and the transcripts
\* were cleared: the item is still there.
C27_Witness ==
  /\ Len(processed) >= 1
  /\ lastAction.type = "ADD_ITEM"
  /\ Len(Items) = 1
  /\ transcripts = <<>>
  /\ ~effectDue
  /\ recognizer = "inactive"
  /\ status = "idle"

\* The states of the recognizer in which a session is started and has not
\* ended.
SessionLive == {"starting", "active", "stopping", "ending"}

\* C30 as claimed: start() is never called while a session is started and
\* has not ended; without a SpeechRecognition it is never called and the
\* status stays 'unsupported'.
C30_NoStartWhileStarted ==
  /\ startedAt \notin SessionLive
  /\ ~isSupported => startedAt = "never" /\ status = "unsupported"

\* C30, amended: start() is never called while the status is 'listening',
\* that is from the start event up to the end or error event; a call while
\* a session is started and has not ended, before its start event or
\* between its error and its end event, leaves the recognizer, the status
\* and the error as they were; without a SpeechRecognition start() is never
\* called and the status stays 'unsupported'.
C30_StartGuarded ==
  /\ [](startedAt \notin {"active", "stopping"})
  /\ [](~isSupported => startedAt = "never" /\ status = "unsupported")
  /\ [][startedAt' # startedAt /\ startedAt' \in SessionLive
         => UNCHANGED <<recognizer, status, error>>]_vars

\* start() was called a second time before the start event of the session.
C30_Witness ==
  /\ startedAt = "starting"
  /\ recognizer = "starting"
  /\ status = "idle"
  /\ isSupported

====
